---------------------------- MODULE Spec2Model ----------------------------
(***************************************************************************)
(* Model of the deterministic core of the Indian mutual-fund robo-advisor: *)
(* the fund recommendation engine (modules/recommendations.py and the      *)
(* older copy in roboadvisor.py) and the goal projection engine            *)
(* (modules/goal_path.py), over the assumption tables of                   *)
(* utils/constants.py.                                                     *)
(*                                                                         *)
(* Percentages are held in tenths of a percentage point (9.0 % is 90), so  *)
(* that every table entry and every threshold of the source is an integer. *)
(***************************************************************************)
EXTENDS Integers, Sequences, FiniteSets, TLC

VARIABLES
    df,                 \* the fund catalog handed to the engine (a DataFrame)
    called,             \* which filter_and_sort_recommendations ran last
    risk_category,      \* its risk_category argument
    investment_amount,  \* its investment_amount argument
    duration,           \* its duration argument
    df_step1,           \* rows left by the risk-profile filter
    df_step2,           \* rows left by the min-investment filter
    df_step3,           \* rows left by the duration and fund-type filters
    recommended,        \* the DataFrame it returned
    adjusted,           \* the last apply_mean_reversion call: its arguments and result
    calls,              \* the last two calculate_goal_projections calls, oldest first
    scored,             \* the last get_confidence_score call: its arguments and result
    grown,              \* the last calculate_corpus_growth call: its arguments and result
    goals,              \* the rows of the goals table, in insertion order
    now,                \* the clock datetime.utcnow() reads, in seconds
    last_call,          \* the last call on the goal store: its arguments, what it
                        \* returned and the table it found
    session_state,      \* st.session_state of the goal page
    generated,          \* the last two generate_goal_id calls, oldest first
    saves,              \* the save_goal calls running side by side, one per caller
    assessed            \* the last risk form submitted: its answers and the outcome

rec_vars == <<df, called, risk_category, investment_amount, duration,
              df_step1, df_step2, df_step3, recommended>>

goal_vars == <<adjusted, calls, scored, grown>>

store_vars == <<goals, now, last_call>>

app_vars == <<session_state, generated, saves, assessed>>

vars == <<rec_vars, goal_vars, store_vars, app_vars>>

-----------------------------------------------------------------------------
(* Bounds of the model *)

\* longest catalog explored
MaxCatalog == 3

\* longest investment horizon explored, in years
MaxHorizon == 2

\* largest recent 1-year return handed to apply_mean_reversion, in tenths of
\* a percentage point (recent returns range over -MaxRecent..MaxRecent)
MaxRecent == 200

\* largest volatility handed to get_confidence_score, in tenths of a
\* percentage point, and oldest fund, in years
MaxVolatility == 150
MaxAge == 12

\* latest clock reading, in seconds
MaxTime == 1

\* number of save_goal calls running side by side
MaxSavers == 2

\* latest reading of the microsecond clock generate_goal_id takes its seed
\* from; the last reading falls on the next day
MaxStamp == 3

-----------------------------------------------------------------------------
(* utils/constants.py *)

\* dict.get(key, default)
Get(d, k, default) == IF k \in DOMAIN d THEN d[k] ELSE default

\* Series.isin(list)
IsIn(v, list) == \E i \in DOMAIN list : list[i] = v

\* the hierarchy read upward: each category admits the riskier ones
RISK_HIERARCHY_Upward ==
    [rc \in {"High Risk", "Medium Risk", "Moderate Risk", "Low Risk"} |->
        CASE rc = "High Risk"     -> <<"High Risk">>
          [] rc = "Medium Risk"   -> <<"Medium Risk", "High Risk">>
          [] rc = "Moderate Risk" -> <<"Moderate Risk", "Medium Risk", "High Risk">>
          [] rc = "Low Risk"      -> <<"Low Risk", "Moderate Risk", "Medium Risk", "High Risk">>]

RISK_HIERARCHY ==
    [rc \in {"High Risk", "Medium Risk", "Moderate Risk", "Low Risk"} |->
        CASE rc = "High Risk"     -> <<"High Risk", "Medium Risk", "Moderate Risk", "Low Risk">>
          [] rc = "Medium Risk"   -> <<"Medium Risk", "Moderate Risk", "Low Risk">>
          [] rc = "Moderate Risk" -> <<"Moderate Risk", "Low Risk">>
          [] rc = "Low Risk"      -> <<"Low Risk">>]

DURATION_OPTIONS == <<"Less than 6 months", "6 months to 1 year", "More than 1 year">>

DURATION_MAP ==
    [d \in {"Less than 6 months", "6 months to 1 year", "More than 1 year"} |->
        CASE d = "Less than 6 months" -> "< 6 months"
          [] d = "6 months to 1 year" -> "6 months to 1 year"
          [] d = "More than 1 year"   -> "> 1 year"]

\* each duration key admitting only funds of its own label
DURATION_HIERARCHY_Exact ==
    [k \in {"< 6 months", "6 months to 1 year", "> 1 year"} |-> <<k>>]

DURATION_HIERARCHY ==
    [k \in {"< 6 months", "6 months to 1 year", "> 1 year"} |->
        CASE k = "< 6 months"         -> <<"< 6 months">>
          [] k = "6 months to 1 year" -> <<"6 months to 1 year", "< 6 months">>
          [] k = "> 1 year"           -> <<"> 1 year", "6 months to 1 year", "< 6 months">>]

ALLOWED_FUND_TYPES ==
    [k \in {"< 6 months", "6 months to 1 year", "> 1 year"} |->
        CASE k = "< 6 months" ->
                [Category |-> <<"Liquid", "Ultra Short Duration", "Short Duration Debt">>,
                 Type     |-> <<"Debt", "Hybrid">>]
          [] k = "6 months to 1 year" ->
                [Category |-> <<>>,
                 Type     |-> <<"Debt", "Hybrid">>]
          [] k = "> 1 year" ->
                [Category |-> <<>>,
                 Type     |-> <<"Debt", "Hybrid", "Equity", "Index/ETF">>]]

\* a conservative rate entered above the expected one (8.2 for 7.2)
CATEGORY_RETURNS_ConservativeAbove ==
    [rc \in {"Low Risk", "Moderate Risk", "Medium Risk", "High Risk"} |->
        CASE rc = "Low Risk"      -> [conservative |-> 54,  expected |-> 60,  best_case |-> 66]
          [] rc = "Moderate Risk" -> [conservative |-> 82,  expected |-> 80,  best_case |-> 88]
          [] rc = "Medium Risk"   -> [conservative |-> 81,  expected |-> 90,  best_case |-> 99]
          [] rc = "High Risk"     -> [conservative |-> 108, expected |-> 120, best_case |-> 132]]

CATEGORY_RETURNS ==
    [rc \in {"Low Risk", "Moderate Risk", "Medium Risk", "High Risk"} |->
        CASE rc = "Low Risk"      -> [conservative |-> 54,  expected |-> 60,  best_case |-> 66]
          [] rc = "Moderate Risk" -> [conservative |-> 72,  expected |-> 80,  best_case |-> 88]
          [] rc = "Medium Risk"   -> [conservative |-> 81,  expected |-> 90,  best_case |-> 99]
          [] rc = "High Risk"     -> [conservative |-> 108, expected |-> 120, best_case |-> 132]]

CATEGORY_VOLATILITY ==
    [rc \in {"Low Risk", "Moderate Risk", "Medium Risk", "High Risk"} |->
        CASE rc = "Low Risk"      -> 35
          [] rc = "Moderate Risk" -> 55
          [] rc = "Medium Risk"   -> 75
          [] rc = "High Risk"     -> 135]

\* a calm year for the NIFTY 50 (12.8 for 14.8)
RECENT_1YR_MARKET_RETURNS_Calm ==
    [rc \in {"Low Risk", "Moderate Risk", "Medium Risk", "High Risk"} |->
        CASE rc = "Low Risk"      -> 62
          [] rc = "Moderate Risk" -> 105
          [] rc = "Medium Risk"   -> 128
          [] rc = "High Risk"     -> 182]

RECENT_1YR_MARKET_RETURNS ==
    [rc \in {"Low Risk", "Moderate Risk", "Medium Risk", "High Risk"} |->
        CASE rc = "Low Risk"      -> 62
          [] rc = "Moderate Risk" -> 105
          [] rc = "Medium Risk"   -> 148
          [] rc = "High Risk"     -> 182]

-----------------------------------------------------------------------------
(* The fund catalog *)

\* a missing numeric cell of the CSV (pandas NaN); every present value is >= 0
NaN == 0 - 1

Fund(name, risk, dur, type, cat, min, rating, r5, r3, er) ==
    [fund_name |-> name, risk_profile |-> risk, duration |-> dur,
     fund_type |-> type, fund_category |-> cat, min_investment |-> min,
     rating |-> rating, return_5y |-> r5, return_3y |-> r3, exp_ratio |-> er]

\* rows a funds.csv can hold: every risk profile, duration label and fund
\* type, allowed and disallowed categories, two rows of one fund name, rows
\* that tie on all four sort keys, and a row with no 5-year return yet
FundRows ==
    { Fund("Quant Small Cap", "High Risk", "> 1 year", "Equity", "Small Cap",
           500, 5, 22, 18, 7),
      Fund("SBI Liquid", "Low Risk", "< 6 months", "Debt", "Liquid",
           500, 4, 5, 6, 2),
      Fund("SBI Liquid", "Low Risk", "< 6 months", "Debt", "Liquid",
           1000, 5, 5, 6, 3),
      Fund("ICICI Arbitrage", "Moderate Risk", "6 months to 1 year", "Hybrid", "Arbitrage",
           500, 4, 5, 6, 2),
      Fund("UTI Nifty Index", "Medium Risk", "> 1 year", "Index/ETF", "Index",
           1000, 4, NaN, 14, 2),
      Fund("Axis Conservative Hybrid", "Low Risk", "< 6 months", "Hybrid", "Conservative Hybrid",
           500, 4, 5, 6, 3),
      Fund("HDFC Corporate Bond", "Low Risk", "> 1 year", "Debt", "Short Duration Debt",
           500, 4, 5, 7, 2),
      Fund("Kotak Equity Savings", "Low Risk", "< 6 months", "Equity", "Liquid",
           500, 3, 9, 8, 4) }

RECURSIVE SeqsUpTo(_, _)
SeqsUpTo(S, n) ==
    IF n = 0 THEN {<<>>}
    ELSE LET shorter == SeqsUpTo(S, n - 1)
         IN  shorter \cup {Append(s, x) : s \in {t \in shorter : Len(t) = n - 1}, x \in S}

\* pd.read_csv: the rows in file order under a RangeIndex
DataFrame(rows) == [i \in DOMAIN rows |-> [index |-> i, row |-> rows[i]]]

Catalogs == {DataFrame(rows) : rows \in SeqsUpTo(FundRows, MaxCatalog)}

RiskArgs == {"Low Risk", "Moderate Risk", "Medium Risk", "High Risk", "Unknown Risk"}
AmountArgs == {500, 1000}
DurationArgs == {DURATION_OPTIONS[i] : i \in DOMAIN DURATION_OPTIONS} \cup {"3 years"}

-----------------------------------------------------------------------------
(* pandas operations used by the engine.  A boolean mask df[mask] is
   SelectSeq: the rows satisfying it, in order, keeping their index. *)

\* position of a value in one sort column (lexsort codes): present values in
\* the requested direction, missing values last (na_position = "last")
KeyBefore(a, b, ascending) ==
    IF a = NaN THEN FALSE
    ELSE IF b = NaN THEN TRUE
    ELSE IF ascending THEN a < b ELSE a > b

\* by = [rating, return_5y, return_3y, exp_ratio],
\* ascending = [False, False, False, True]
SortKey(f) == <<f.rating, f.return_5y, f.return_3y, f.exp_ratio>>
\* the expense ratio sorted like the other three columns
Ascending_AllDescending == <<FALSE, FALSE, FALSE, FALSE>>
Ascending == <<FALSE, FALSE, FALSE, TRUE>>

RowBefore(f, g) ==
    \E k \in 1..4 :
        /\ \A j \in 1..(k - 1) : SortKey(f)[j] = SortKey(g)[j]
        /\ KeyBefore(SortKey(f)[k], SortKey(g)[k], Ascending[k])

\* insert r behind every row that does not come strictly after it
InsertSorted(sorted, r) ==
    LET after == {i \in DOMAIN sorted : RowBefore(r.row, sorted[i].row)}
        pos   == IF after = {} THEN Len(sorted) + 1
                 ELSE CHOOSE i \in after : \A j \in after : i <= j
    IN  SubSeq(sorted, 1, pos - 1) \o <<r>> \o SubSeq(sorted, pos, Len(sorted))

\* DataFrame.sort_values on several columns (a stable lexsort)
RECURSIVE SortValues(_)
SortValues(frame) ==
    IF frame = <<>> THEN <<>>
    ELSE InsertSorted(SortValues(SubSeq(frame, 1, Len(frame) - 1)), frame[Len(frame)])

\* the rows of a frame at the positions in keep, in order
RECURSIVE RowsAt(_, _, _)
RowsAt(frame, keep, i) ==
    IF i > Len(frame) THEN <<>>
    ELSE (IF i \in keep THEN <<frame[i]>> ELSE <<>>) \o RowsAt(frame, keep, i + 1)

\* drop_duplicates with keep='last'
DropDuplicates_KeepLast(frame) ==
    RowsAt(frame,
           {i \in DOMAIN frame :
               \A j \in (i + 1)..Len(frame) : frame[j].row.fund_name # frame[i].row.fund_name},
           1)

\* DataFrame.drop_duplicates(subset=['fund_name'], keep='first')
DropDuplicates(frame) ==
    RowsAt(frame,
           {i \in DOMAIN frame :
               \A j \in 1..(i - 1) : frame[j].row.fund_name # frame[i].row.fund_name},
           1)

-----------------------------------------------------------------------------
(* modules/recommendations.py *)

RiskStep(frame, rc) ==
    LET allowed_risk_profiles == Get(RISK_HIERARCHY, rc, <<rc>>)
    IN  SelectSeq(frame, LAMBDA r : LET f == r.row IN IsIn(f.risk_profile, allowed_risk_profiles))

\* the affordability test with < for <=
AmountStep_Strict(frame, amount) ==
    SelectSeq(frame, LAMBDA r : LET f == r.row IN f.min_investment < amount)

AmountStep(frame, amount) ==
    SelectSeq(frame, LAMBDA r : LET f == r.row IN f.min_investment <= amount)

DurationStep(frame, dur) ==
    LET internal_duration == Get(DURATION_MAP, dur, "")
        allowed_durations == Get(DURATION_HIERARCHY, internal_duration, <<internal_duration>>)
    IN  SelectSeq(frame, LAMBDA r : LET f == r.row IN IsIn(f.duration, allowed_durations))

\* the fund-type rule without its category allow-list
TypeStep_NoCategory(frame, dur) ==
    LET internal_duration == Get(DURATION_MAP, dur, "")
    IN  IF internal_duration \notin DOMAIN ALLOWED_FUND_TYPES THEN frame
        ELSE SelectSeq(frame, LAMBDA r : LET f == r.row IN
                        IsIn(f.fund_type, ALLOWED_FUND_TYPES[internal_duration].Type))

TypeStep(frame, dur) ==
    LET internal_duration == Get(DURATION_MAP, dur, "")
    IN  IF internal_duration \notin DOMAIN ALLOWED_FUND_TYPES THEN frame
        ELSE LET allowed_rules == ALLOWED_FUND_TYPES[internal_duration]
                 typed == SelectSeq(frame, LAMBDA r : LET f == r.row IN IsIn(f.fund_type, allowed_rules.Type))
                 cats  == allowed_rules.Category
             IN  IF cats # <<>>
                 THEN SelectSeq(typed, LAMBDA r : LET f == r.row IN IsIn(f.fund_category, cats))
                 ELSE typed

filter_and_sort_recommendations(frame, rc, amount, dur) ==
    DropDuplicates(SortValues(
        TypeStep(DurationStep(AmountStep(RiskStep(frame, rc), amount), dur), dur)))

(* roboadvisor.py: the older copy, with no duration-label filter and no
   de-duplication *)
roboadvisor_filter_and_sort(frame, rc, amount, dur) ==
    SortValues(TypeStep(AmountStep(RiskStep(frame, rc), amount), dur))

-----------------------------------------------------------------------------
(* Actions *)

ShowRecommendations ==
    /\ called = "none"
    /\ \E rc \in RiskArgs, amount \in AmountArgs, dur \in DurationArgs :
        /\ risk_category' = rc
        /\ investment_amount' = amount
        /\ duration' = dur
        /\ df_step1' = RiskStep(df, rc)
        /\ df_step2' = AmountStep(RiskStep(df, rc), amount)
        /\ df_step3' = TypeStep(DurationStep(AmountStep(RiskStep(df, rc), amount), dur), dur)
        /\ recommended' = filter_and_sort_recommendations(df, rc, amount, dur)
    /\ called' = "recommendations"
    /\ UNCHANGED <<df, goal_vars, store_vars, app_vars>>

RoboadvisorShowRecommendations ==
    /\ called = "none"
    /\ \E rc \in RiskArgs, amount \in AmountArgs, dur \in DurationArgs :
        /\ risk_category' = rc
        /\ investment_amount' = amount
        /\ duration' = dur
        /\ df_step1' = RiskStep(df, rc)
        /\ df_step2' = AmountStep(RiskStep(df, rc), amount)
        /\ df_step3' = TypeStep(AmountStep(RiskStep(df, rc), amount), dur)
        /\ recommended' = roboadvisor_filter_and_sort(df, rc, amount, dur)
    /\ called' = "roboadvisor"
    /\ UNCHANGED <<df, goal_vars, store_vars, app_vars>>

-----------------------------------------------------------------------------
(* modules/goal_path.py *)

\* an Optional[float] argument: None, or a value
None == <<>>
Some(v) == <<v>>

\* A float is held in fixed point: x stands for x / Scale.  Amounts of money
\* handed in are whole numbers (of thousands of rupees); growth factors and
\* the amounts calculate_corpus_growth returns are fixed-point values.
Scale == 10 ^ 7

\* (1 + monthly_return_pct) ** months for an annual return in tenths of a
\* percent: monthly_return_pct = annual_return_pct / 12 / 100
RECURSIVE GrowthFactor(_, _)
GrowthFactor(annual_return_pct, months) ==
    IF months = 0 THEN Scale
    ELSE LET f == GrowthFactor(annual_return_pct, months - 1)
         IN  f + ((f * annual_return_pct) \div 12000)

\* ((1 + monthly_return_pct) ** months - 1) / monthly_return_pct
AnnuityFactor(annual_return_pct, months) ==
    (((GrowthFactor(annual_return_pct, months) - Scale) * 120) \div annual_return_pct) * 100

\* a horizon that is not positive answered with the corpus alone
calculate_corpus_growth_ClampYears(initial_corpus, monthly_sip, years, annual_return_pct) ==
    IF years <= 0 THEN initial_corpus * Scale
    ELSE IF annual_return_pct = 0 THEN (initial_corpus + (monthly_sip * 12 * years)) * Scale
    ELSE LET months    == years * 12
             fv_corpus == initial_corpus * GrowthFactor(annual_return_pct, months)
             fv_sip    == monthly_sip * AnnuityFactor(annual_return_pct, months)
         IN  fv_corpus + fv_sip

\* the SIP paid at the start of each month (an annuity due)
calculate_corpus_growth_AnnuityDue(initial_corpus, monthly_sip, years, annual_return_pct) ==
    IF years <= 0 THEN (initial_corpus + (monthly_sip * 12 * years)) * Scale
    ELSE IF annual_return_pct = 0 THEN (initial_corpus + (monthly_sip * 12 * years)) * Scale
    ELSE LET months    == years * 12
             fv_corpus == initial_corpus * GrowthFactor(annual_return_pct, months)
             fv_sip    == monthly_sip * (AnnuityFactor(annual_return_pct, months + 1) - Scale)
         IN  fv_corpus + fv_sip

calculate_corpus_growth(initial_corpus, monthly_sip, years, annual_return_pct) ==
    IF years <= 0 THEN (initial_corpus + (monthly_sip * 12 * years)) * Scale
    ELSE IF annual_return_pct = 0 THEN (initial_corpus + (monthly_sip * 12 * years)) * Scale
    ELSE LET months    == years * 12
             fv_corpus == initial_corpus * GrowthFactor(annual_return_pct, months)
             fv_sip    == monthly_sip * AnnuityFactor(annual_return_pct, months)
         IN  fv_corpus + fv_sip

get_category_return_assumptions(rc) ==
    Get(CATEGORY_RETURNS, rc, CATEGORY_RETURNS["Medium Risk"])

get_category_volatility(rc) ==
    Get(CATEGORY_VOLATILITY, rc, CATEGORY_VOLATILITY["Medium Risk"])

\* the adjustment made with the wrong sign (+ for -)
apply_mean_reversion_Upward(base_return, recent_1yr_return) ==
    IF recent_1yr_return > base_return + 50 THEN base_return + 10 ELSE base_return

\* the adjustment made at the threshold already (>= for >)
apply_mean_reversion_AtThreshold(base_return, recent_1yr_return) ==
    IF recent_1yr_return >= base_return + 50 THEN base_return - 10 ELSE base_return

apply_mean_reversion(base_return, recent_1yr_return) ==
    LET threshold == base_return + 50
    IN  IF recent_1yr_return > threshold THEN base_return - 10 ELSE base_return

\* the two weights exchanged (0.3 for volatility, 0.7 for age)
get_confidence_score_WeightsSwapped(volatility, fund_age_years) ==
    LET vol_score == IF volatility <= 50 THEN 3 ELSE IF volatility <= 100 THEN 2 ELSE 1
        age_score == IF fund_age_years >= 10 THEN 3 ELSE IF fund_age_years >= 5 THEN 2 ELSE 1
        combined  == (vol_score * 3) + (age_score * 7)
    IN  IF combined >= 25 THEN "High" ELSE IF combined >= 15 THEN "Medium" ELSE "Low"

\* combined = vol_score * 0.7 + age_score * 0.3, here times ten
get_confidence_score(volatility, fund_age_years) ==
    LET vol_score == IF volatility <= 50 THEN 3 ELSE IF volatility <= 100 THEN 2 ELSE 1
        age_score == IF fund_age_years >= 10 THEN 3 ELSE IF fund_age_years >= 5 THEN 2 ELSE 1
        combined  == (vol_score * 7) + (age_score * 3)
    IN  IF combined >= 25 THEN "High" ELSE IF combined >= 15 THEN "Medium" ELSE "Low"

get_confidence_percentage(confidence_level) ==
    CASE confidence_level = "High"   -> 70
      [] confidence_level = "Medium" -> 50
      [] confidence_level = "Low"    -> 25
      [] OTHER                       -> 50

\* confidence scored for a young fund (age 2 for the mature-fund default)
Projections_YoungFund(corpus, sip, horizon, rc, recent) ==
    LET assumptions     == get_category_return_assumptions(rc)
        base_return     == assumptions.expected
        adjusted_return == apply_mean_reversion(base_return, recent)
        volatility      == get_category_volatility(rc)
        confidence      == get_confidence_score(volatility, 2)
    IN  [conservative |-> calculate_corpus_growth(corpus, sip, horizon, assumptions.conservative),
         expected     |-> calculate_corpus_growth(corpus, sip, horizon, adjusted_return),
         best_case    |-> calculate_corpus_growth(corpus, sip, horizon, assumptions.best_case),
         adjusted_return |-> adjusted_return,
         base_return  |-> base_return,
         confidence   |-> confidence,
         confidence_percentage |-> get_confidence_percentage(confidence),
         volatility   |-> volatility,
         mean_reversion_applied |-> (adjusted_return # base_return)]

\* the flag computed from the wrong comparison (== for !=)
Projections_FlagInverted(corpus, sip, horizon, rc, recent) ==
    LET assumptions     == get_category_return_assumptions(rc)
        base_return     == assumptions.expected
        adjusted_return == apply_mean_reversion(base_return, recent)
        volatility      == get_category_volatility(rc)
        confidence      == get_confidence_score(volatility, 10)
    IN  [conservative |-> calculate_corpus_growth(corpus, sip, horizon, assumptions.conservative),
         expected     |-> calculate_corpus_growth(corpus, sip, horizon, adjusted_return),
         best_case    |-> calculate_corpus_growth(corpus, sip, horizon, assumptions.best_case),
         adjusted_return |-> adjusted_return,
         base_return  |-> base_return,
         confidence   |-> confidence,
         confidence_percentage |-> get_confidence_percentage(confidence),
         volatility   |-> volatility,
         mean_reversion_applied |-> (adjusted_return = base_return)]

\* the mean-reversion point taken off all three legs
Projections_AdjustAllLegs(corpus, sip, horizon, rc, recent) ==
    LET assumptions     == get_category_return_assumptions(rc)
        base_return     == assumptions.expected
        adjusted_return == apply_mean_reversion(base_return, recent)
        cut             == base_return - adjusted_return
        volatility      == get_category_volatility(rc)
        confidence      == get_confidence_score(volatility, 10)
    IN  [conservative |-> calculate_corpus_growth(corpus, sip, horizon,
                                                  assumptions.conservative - cut),
         expected     |-> calculate_corpus_growth(corpus, sip, horizon, adjusted_return),
         best_case    |-> calculate_corpus_growth(corpus, sip, horizon,
                                                  assumptions.best_case - cut),
         adjusted_return |-> adjusted_return,
         base_return  |-> base_return,
         confidence   |-> confidence,
         confidence_percentage |-> get_confidence_percentage(confidence),
         volatility   |-> volatility,
         mean_reversion_applied |-> (adjusted_return # base_return)]

Projections(corpus, sip, horizon, rc, recent) ==
    LET assumptions     == get_category_return_assumptions(rc)
        base_return     == assumptions.expected
        adjusted_return == apply_mean_reversion(base_return, recent)
        volatility      == get_category_volatility(rc)
        confidence      == get_confidence_score(volatility, 10)
    IN  [conservative |-> calculate_corpus_growth(corpus, sip, horizon, assumptions.conservative),
         expected     |-> calculate_corpus_growth(corpus, sip, horizon, adjusted_return),
         best_case    |-> calculate_corpus_growth(corpus, sip, horizon, assumptions.best_case),
         adjusted_return |-> adjusted_return,
         base_return  |-> base_return,
         confidence   |-> confidence,
         confidence_percentage |-> get_confidence_percentage(confidence),
         volatility   |-> volatility,
         mean_reversion_applied |-> (adjusted_return # base_return)]

\* the adjustment left out when the caller supplies no recent return
calculate_goal_projections_SkipWhenNone(corpus, sip, horizon, rc, recent_1yr_return) ==
    LET base_return == get_category_return_assumptions(rc).expected
    IN  Projections(corpus, sip, horizon, rc,
                    IF recent_1yr_return = None THEN base_return ELSE recent_1yr_return[1])

calculate_goal_projections(corpus, sip, horizon, rc, recent_1yr_return) ==
    LET base_return == get_category_return_assumptions(rc).expected
        recent      == IF recent_1yr_return = None
                       THEN Get(RECENT_1YR_MARKET_RETURNS, rc, base_return)
                       ELSE recent_1yr_return[1]
    IN  Projections(corpus, sip, horizon, rc, recent)

-----------------------------------------------------------------------------
(* Arguments explored *)

BaseReturnArgs == {0 - 20, 0, 60, 80, 90, 120}
RecentReturnArgs == (0 - MaxRecent)..MaxRecent

CorpusArgs == {0, 50}
SipArgs == {0, 2}
HorizonArgs == 1..MaxHorizon
\* no value, each category's recent market return, each category's
\* threshold and the value just above it, and a falling market
RecentArgs ==
    {None} \cup
    {Some(v) : v \in {0 - 50} \cup
                     {RECENT_1YR_MARKET_RETURNS[rc] : rc \in DOMAIN RECENT_1YR_MARKET_RETURNS} \cup
                     {CATEGORY_RETURNS[rc].expected + 50 : rc \in DOMAIN CATEGORY_RETURNS} \cup
                     {CATEGORY_RETURNS[rc].expected + 51 : rc \in DOMAIN CATEGORY_RETURNS}}

GoalArgs ==
    [corpus : CorpusArgs, sip : SipArgs, horizon : HorizonArgs,
     risk_category : RiskArgs, recent_1yr_return : RecentArgs]

-----------------------------------------------------------------------------
(* Actions of the goal projection engine *)

ApplyMeanReversion ==
    /\ \E base_return \in BaseReturnArgs, recent_1yr_return \in RecentReturnArgs :
        adjusted' = <<[base_return |-> base_return,
                       recent_1yr_return |-> recent_1yr_return,
                       result |-> apply_mean_reversion(base_return, recent_1yr_return)]>>
    /\ UNCHANGED <<rec_vars, calls, scored, grown, store_vars, app_vars>>

\* a projection, and after it the projection of the same goal under another
\* risk category or another recent return
CalculateGoalProjections ==
    /\ \E a \in GoalArgs :
        /\ calls # <<>> =>
            LET last == calls[Len(calls)].args
            IN  /\ a.corpus = last.corpus
                /\ a.sip = last.sip
                /\ a.horizon = last.horizon
                /\ \/ a.risk_category = last.risk_category
                   \/ a.recent_1yr_return = last.recent_1yr_return
        /\ calls' = (IF calls = <<>> THEN <<>> ELSE <<calls[Len(calls)]>>) \o
                    <<[args |-> a,
                       result |-> calculate_goal_projections(
                                      a.corpus, a.sip, a.horizon,
                                      a.risk_category, a.recent_1yr_return)]>>
    /\ UNCHANGED <<rec_vars, adjusted, scored, grown, store_vars, app_vars>>

-----------------------------------------------------------------------------
(* get_confidence_score and calculate_corpus_growth called on their own *)

VolatilityArgs == 0..MaxVolatility
AgeArgs == 0..MaxAge

GetConfidenceScore ==
    /\ \E volatility \in VolatilityArgs, fund_age_years \in AgeArgs :
        scored' = <<[volatility |-> volatility,
                     fund_age_years |-> fund_age_years,
                     result |-> get_confidence_score(volatility, fund_age_years)]>>
    /\ UNCHANGED <<rec_vars, adjusted, calls, grown, store_vars, app_vars>>

\* years before and after today; falling, flat and rising markets
YearsArgs == (0 - MaxHorizon)..MaxHorizon
RateArgs == {0 - 50, 0, 60, 80, 81, 120, 132}

CalculateCorpusGrowth ==
    /\ \E initial_corpus \in CorpusArgs, monthly_sip \in SipArgs,
          years \in YearsArgs, annual_return_pct \in RateArgs :
        grown' = <<[initial_corpus |-> initial_corpus,
                    monthly_sip |-> monthly_sip,
                    years |-> years,
                    annual_return_pct |-> annual_return_pct,
                    result |-> calculate_corpus_growth(initial_corpus, monthly_sip,
                                                       years, annual_return_pct)]>>
    /\ UNCHANGED <<rec_vars, adjusted, calls, scored, store_vars, app_vars>>

-----------------------------------------------------------------------------
(* db.py and modules/persistence.py: the goals table *)

\* SQL NULL; a nullable timestamp column holds NULL or <<t>>
NULL == <<>>

\* ids generate_goal_id can return: "GOAL_" + date + 5 hex digits of an md5
GoalIds == {"GOAL_20251208_ABC12", "GOAL_20251208_0F3D9"}

\* what the goal page puts into goal_data when "Save Goal" is pressed
goal_data(registration_id, corpus, sip, horizon, rc, created_at) ==
    LET projections == calculate_goal_projections(corpus, sip, horizon, rc, None)
    IN  [registration_id         |-> registration_id,
         corpus                  |-> corpus,
         sip                     |-> sip,
         horizon                 |-> horizon,
         risk_category           |-> rc,
         conservative_projection |-> projections.conservative,
         expected_projection     |-> projections.expected,
         best_case_projection    |-> projections.best_case,
         confidence              |-> projections.confidence,
         adjusted_return         |-> projections.adjusted_return,
         created_at              |-> created_at]

\* an anonymous visitor's goal and a registered user's goal
GoalDataArgs(created_at) ==
    {goal_data(NULL, 0, 2, 2, "Low Risk", created_at),
     goal_data(<<1>>, 50, 2, 1, "Medium Risk", created_at)}

\* the clock read again: the same second or the next one
ClockReadings == {t \in {now, now + 1} : t <= MaxTime}

HasGoal(table, goal_id) == \E i \in DOMAIN table : table[i].goal_id = goal_id

\* created_at taken from the store's own clock instead of the caller's value
db_save_goal_StampsCreated(table, goal_id, d, t) ==
    Append(table,
           [goal_id                 |-> goal_id,
            registration_id         |-> d.registration_id,
            corpus                  |-> d.corpus,
            sip                     |-> d.sip,
            horizon                 |-> d.horizon,
            risk_category           |-> d.risk_category,
            conservative_projection |-> d.conservative_projection,
            expected_projection     |-> d.expected_projection,
            best_case_projection    |-> d.best_case_projection,
            confidence              |-> d.confidence,
            adjusted_return         |-> d.adjusted_return,
            created_at              |-> t,
            updated_at              |-> t,
            status                  |-> "saved",
            email_sent_at           |-> NULL,
            revisited_at            |-> NULL])

\* INSERT INTO goals (...) VALUES (..., created_at, now, 'saved')
db_save_goal(table, goal_id, d, t) ==
    Append(table,
           [goal_id                 |-> goal_id,
            registration_id         |-> d.registration_id,
            corpus                  |-> d.corpus,
            sip                     |-> d.sip,
            horizon                 |-> d.horizon,
            risk_category           |-> d.risk_category,
            conservative_projection |-> d.conservative_projection,
            expected_projection     |-> d.expected_projection,
            best_case_projection    |-> d.best_case_projection,
            confidence              |-> d.confidence,
            adjusted_return         |-> d.adjusted_return,
            created_at              |-> d.created_at,
            updated_at              |-> t,
            status                  |-> "saved",
            email_sent_at           |-> NULL,
            revisited_at            |-> NULL])

\* the status flipped back when the mail had been sent already
db_mark_goal_email_sent_Toggle(table, goal_id, t) ==
    [i \in DOMAIN table |->
        IF table[i].goal_id = goal_id
        THEN [table[i] EXCEPT !.status = IF @ = "email_sent" THEN "saved" ELSE "email_sent",
                              !.email_sent_at = <<t>>, !.updated_at = t]
        ELSE table[i]]

\* INSERT OR REPLACE in place of UPDATE: a row is made for an unknown id
db_mark_goal_email_sent_Upsert(table, goal_id, t) ==
    IF \E i \in DOMAIN table : table[i].goal_id = goal_id
    THEN [i \in DOMAIN table |->
            IF table[i].goal_id = goal_id
            THEN [table[i] EXCEPT !.status = "email_sent", !.email_sent_at = <<t>>,
                                  !.updated_at = t]
            ELSE table[i]]
    ELSE Append(table, [goal_id |-> goal_id, status |-> "email_sent",
                        email_sent_at |-> <<t>>, updated_at |-> t])

\* the update stamping both timestamp columns
db_mark_goal_email_sent_StampsBoth(table, goal_id, t) ==
    [i \in DOMAIN table |->
        IF table[i].goal_id = goal_id
        THEN [table[i] EXCEPT !.status = "email_sent", !.email_sent_at = <<t>>,
                              !.revisited_at = <<t>>, !.updated_at = t]
        ELSE table[i]]

\* UPDATE goals SET status = 'email_sent', email_sent_at = ?, updated_at = ?
\* WHERE goal_id = ?
db_mark_goal_email_sent(table, goal_id, t) ==
    [i \in DOMAIN table |->
        IF table[i].goal_id = goal_id
        THEN [table[i] EXCEPT !.status = "email_sent", !.email_sent_at = <<t>>,
                              !.updated_at = t]
        ELSE table[i]]

\* the revisit wiping the record of the mail
db_mark_goal_revisited_ClearsEmailSent(table, goal_id, t) ==
    [i \in DOMAIN table |->
        IF table[i].goal_id = goal_id
        THEN [table[i] EXCEPT !.status = "revisited", !.revisited_at = <<t>>,
                              !.email_sent_at = NULL, !.updated_at = t]
        ELSE table[i]]

\* the revisit stamping created_at as well
db_mark_goal_revisited_Restamps(table, goal_id, t) ==
    [i \in DOMAIN table |->
        IF table[i].goal_id = goal_id
        THEN [table[i] EXCEPT !.status = "revisited", !.revisited_at = <<t>>,
                              !.created_at = t + 1, !.updated_at = t]
        ELSE table[i]]

\* UPDATE goals SET status = 'revisited', revisited_at = ?, updated_at = ?
\* WHERE goal_id = ?
db_mark_goal_revisited(table, goal_id, t) ==
    [i \in DOMAIN table |->
        IF table[i].goal_id = goal_id
        THEN [table[i] EXCEPT !.status = "revisited", !.revisited_at = <<t>>,
                              !.updated_at = t]
        ELSE table[i]]

\* SELECT * FROM goals WHERE goal_id = ?, fetchone(): the row, or None
db_get_goal(table, goal_id) ==
    LET found == {i \in DOMAIN table : table[i].goal_id = goal_id}
    IN  IF found = {} THEN None
        ELSE table[CHOOSE i \in found : \A j \in found : i <= j]

\* SELECT * FROM goals WHERE registration_id = ? ORDER BY created_at DESC:
\* the orders in which the user's rows can come back, newest first (rows of
\* one created_at in either order)
db_get_user_goals(table, registration_id) ==
    LET found == {i \in DOMAIN table : table[i].registration_id = <<registration_id>>}
        n     == Cardinality(found)
        picks == {s \in [1..n -> found] :
                    /\ \A i, j \in 1..n : i # j => s[i] # s[j]
                    /\ \A i, j \in 1..n :
                          i < j => table[s[i]].created_at >= table[s[j]].created_at}
    IN  {[i \in 1..n |-> table[s[i]]] : s \in picks}

\* what retrieve_goal returns for a goal that is not there
EmptyDict == <<>>

\* registration ids asked for: a user with goals, and one without
RegistrationArgs == {1, 2}

\* a call on the store as last_call keeps it
Call(op, goal_id, registration_id, d, db_error, ok, result, before) ==
    [op |-> op, goal_id |-> goal_id, registration_id |-> registration_id,
     goal_data |-> d, db_error |-> db_error, ok |-> ok, result |-> result,
     before |-> before]

\* a table without the UNIQUE constraint on goal_id
InsertRaises_NoUnique(table, goal_id, db_error) == db_error

\* the INSERT raises when the id is already there (goal_id is UNIQUE) and
\* when the database fails
InsertRaises(table, goal_id, db_error) == db_error \/ HasGoal(table, goal_id)

\* persistence.save_goal: the id is generated and the row inserted; an
\* exception of the insert is logged and raised again to the caller
SaveGoal ==
    /\ \E goal_id \in GoalIds, d \in GoalDataArgs(now), t \in ClockReadings,
          db_error \in BOOLEAN :
        /\ now' = t
        /\ IF InsertRaises(goals, goal_id, db_error)
           THEN /\ goals' = goals
                /\ last_call' = Call("save_goal", goal_id, d.registration_id, d,
                                     db_error, FALSE, NULL, goals)
           ELSE /\ goals' = db_save_goal(goals, goal_id, d, t)
                /\ last_call' = Call("save_goal", goal_id, d.registration_id, d,
                                     db_error, TRUE, goal_id, goals)
    /\ UNCHANGED <<rec_vars, goal_vars, app_vars>>

\* persistence.retrieve_goal: the goal, or {} when there is none or the
\* query raised
RetrieveGoal ==
    /\ \E goal_id \in GoalIds, db_error \in BOOLEAN :
        LET goal == db_get_goal(goals, goal_id)
        IN  last_call' = Call("retrieve_goal", goal_id, NULL, NULL, db_error, TRUE,
                              IF ~ db_error /\ goal # None THEN goal ELSE EmptyDict,
                              goals)
    /\ UNCHANGED <<rec_vars, goal_vars, app_vars, goals, now>>

\* persistence.get_user_goals: the user's goals, or an empty DataFrame when
\* the query raised
GetUserGoals ==
    /\ \E registration_id \in RegistrationArgs, db_error \in BOOLEAN :
        \E goals_df \in db_get_user_goals(goals, registration_id) :
            last_call' = Call("get_user_goals", "", <<registration_id>>, NULL, db_error,
                              TRUE, IF db_error THEN <<>> ELSE goals_df, goals)
    /\ UNCHANGED <<rec_vars, goal_vars, app_vars, goals, now>>

\* persistence.mark_goal_email_sent: True, or False when the update raised
MarkGoalEmailSent ==
    /\ \E goal_id \in GoalIds, t \in ClockReadings, db_error \in BOOLEAN :
        /\ now' = t
        /\ goals' = IF db_error THEN goals ELSE db_mark_goal_email_sent(goals, goal_id, t)
        /\ last_call' = Call("mark_goal_email_sent", goal_id, NULL, NULL,
                             db_error, ~ db_error, NULL, goals)
    /\ UNCHANGED <<rec_vars, goal_vars, app_vars>>

\* persistence.mark_goal_revisited: True, or False when the update raised
MarkGoalRevisited ==
    /\ \E goal_id \in GoalIds, t \in ClockReadings, db_error \in BOOLEAN :
        /\ now' = t
        /\ goals' = IF db_error THEN goals ELSE db_mark_goal_revisited(goals, goal_id, t)
        /\ last_call' = Call("mark_goal_revisited", goal_id, NULL, NULL,
                             db_error, ~ db_error, NULL, goals)
    /\ UNCHANGED <<rec_vars, goal_vars, app_vars>>

-----------------------------------------------------------------------------

(* utils/constants.py and modules/risk_assessment.py: the risk questionnaire *)

\* the scores of each question's options, in the order the form lists them
RISK_QUESTIONNAIRE ==
    [q \in 1..13 |->
        CASE q = 1        -> <<4, 3, 2, 1>>
          [] q \in {4, 5} -> <<1, 2, 3>>
          [] OTHER        -> <<1, 2, 3, 4>>]

RISK_CATEGORIES ==
    <<[range |-> <<13, 18>>, name |-> "Low Risk"],
      [range |-> <<19, 22>>, name |-> "Moderate Risk"],
      [range |-> <<23, 28>>, name |-> "Medium Risk"],
      [range |-> <<29, 45>>, name |-> "High Risk"]>>

\* sum(answers.values())
RECURSIVE SumValues(_, _)
SumValues(answers, keys) ==
    IF keys = {} THEN 0
    ELSE LET q == CHOOSE k \in keys : TRUE
         IN  answers[q] + SumValues(answers, keys \ {q})

\* the first profile whose range holds the total, or None
calculate_risk_score(answers) ==
    LET total_score == SumValues(answers, DOMAIN answers)
        matching    == {i \in DOMAIN RISK_CATEGORIES :
                           /\ RISK_CATEGORIES[i].range[1] <= total_score
                           /\ total_score <= RISK_CATEGORIES[i].range[2]}
    IN  [total_score |-> total_score,
         category    |-> IF matching = {} THEN None
                         ELSE Some(RISK_CATEGORIES[CHOOSE i \in matching :
                                                     \A j \in matching : i <= j].name)]

\* the forms explored: question 1, questions 2-3, 4-5, 6-9 and 10-13 each
\* answered with one option throughout
AnswerSheets ==
    {[q \in 1..13 |->
         CASE q = 1        -> a
           [] q \in {2, 3} -> b
           [] q \in {4, 5} -> c
           [] q \in 6..9   -> d
           [] OTHER        -> e] :
     a \in 1..4, b \in 1..4, c \in 1..3, d \in 1..4, e \in 1..4}

\* "Calculate Risk Profile": every question has an option selected; the
\* scores of the selected options are summed and the outcome kept in the
\* session
SubmitRiskForm ==
    /\ \E selected \in AnswerSheets :
        LET answers_scores == [q \in DOMAIN RISK_QUESTIONNAIRE |->
                                  RISK_QUESTIONNAIRE[q][selected[q]]]
            outcome        == calculate_risk_score(answers_scores)
        IN  assessed' = <<[risk_answers  |-> answers_scores,
                           risk_score    |-> outcome.total_score,
                           risk_category |-> outcome.category]>>
    /\ UNCHANGED <<rec_vars, goal_vars, store_vars, session_state, generated, saves>>

-----------------------------------------------------------------------------

(* save_goal called by several sessions at once *)

Savers == 1..MaxSavers

\* a call that has not begun
NotStarted ==
    [pc |-> "generate", goal_id |-> "", goal_data |-> NULL, inserts |-> 0,
     db_error |-> FALSE, raised |-> FALSE]

\* persistence.save_goal up to the call of db.save_goal: the id is generated
SaveGenerate ==
    /\ \E p \in DOMAIN saves, goal_id \in GoalIds, d \in GoalDataArgs(now) :
        /\ saves[p].pc = "generate"
        /\ saves' = [saves EXCEPT ![p].pc = "insert", ![p].goal_id = goal_id,
                                  ![p].goal_data = d]
    /\ UNCHANGED <<rec_vars, goal_vars, goals, now, last_call,
                   session_state, generated, assessed>>

\* db.save_goal: INSERT and commit on the call's own connection; SQLite lets
\* one writer in at a time and checks UNIQUE inside the insert
SaveInsert ==
    /\ \E p \in DOMAIN saves, t \in ClockReadings, db_error \in BOOLEAN :
        /\ saves[p].pc = "insert"
        /\ now' = t
        /\ IF InsertRaises(goals, saves[p].goal_id, db_error)
           THEN /\ goals' = goals
                /\ saves' = [saves EXCEPT ![p].pc = "done", ![p].db_error = db_error,
                                          ![p].raised = TRUE]
           ELSE /\ goals' = db_save_goal(goals, saves[p].goal_id, saves[p].goal_data, t)
                /\ saves' = [saves EXCEPT ![p].pc = "done", ![p].inserts = @ + 1]
    /\ UNCHANGED <<rec_vars, goal_vars, last_call, session_state, generated, assessed>>

-----------------------------------------------------------------------------

(* modules/persistence.py: generate_goal_id *)

\* registration_id: int | None
OwnerArgs == {None, Some(0), Some(1), Some(2)}

Stamps == 0..MaxStamp

\* now.strftime("%Y%m%d"): the day a clock reading falls on
Date(stamp) == stamp \div MaxStamp

\* str(registration_id) for the ids explored
Str(n) == CASE n = 0 -> "0" [] n = 1 -> "1" [] n = 2 -> "2"

\* f"{now.isoformat()}{registration_id or 'anon'}": None and 0 are both falsy
Seed(stamp, registration_id) ==
    [isoformat |-> stamp,
     owner     |-> IF registration_id = None \/ registration_id = Some(0)
                   THEN "anon" ELSE Str(registration_id[1])]

\* hashlib.md5(seed).hexdigest()[:5]: one of 16 ^ 5 values, fixed by the seed
Md5Prefix(seed) ==
    LET code == CASE seed.owner = "anon" -> 7 [] seed.owner = "1" -> 49 [] seed.owner = "2" -> 50
    IN  ((seed.isoformat * 131) + (code * 31)) % (16 ^ 5)

\* f"GOAL_{date_str}_{hash_suffix}"
generate_goal_id(stamp, registration_id) ==
    [date_str |-> Date(stamp), hash_suffix |-> Md5Prefix(Seed(stamp, registration_id))]

\* a call reads datetime.now(): a reading not before the last one, and the
\* same one again when the clock has not ticked between two calls
GenerateGoalId ==
    /\ \E registration_id \in OwnerArgs, stamp \in Stamps :
        /\ generated # <<>> => stamp >= generated[Len(generated)].now
        /\ generated' = (IF generated = <<>> THEN <<>> ELSE <<generated[Len(generated)]>>) \o
                        <<[registration_id |-> registration_id,
                           now |-> stamp,
                           goal_id |-> generate_goal_id(stamp, registration_id)]>>
    /\ UNCHANGED <<rec_vars, goal_vars, store_vars, session_state, saves, assessed>>

-----------------------------------------------------------------------------

(* modules/goal_path.py: the "Save Goal" button of the projection page *)

\* the session of a page that has computed its projections and saved nothing
Session(registration_id, corpus, sip, horizon, rc) ==
    [registration_id |-> registration_id,
     goalid          |-> None,
     corpus          |-> corpus,
     sip             |-> sip,
     horizon         |-> horizon,
     risk_category   |-> rc,
     projections     |-> calculate_goal_projections(corpus, sip, horizon, rc, None)]

\* an anonymous visitor's page and a registered user's page
Sessions ==
    {Session(NULL, 0, 2, 2, "Low Risk"),
     Session(<<1>>, 50, 2, 1, "Medium Risk")}

\* goal_data as the button handler builds it
page_goal_data(session, created_at) ==
    [registration_id         |-> session.registration_id,
     corpus                  |-> session.corpus,
     sip                     |-> session.sip,
     horizon                 |-> session.horizon,
     risk_category           |-> session.risk_category,
     conservative_projection |-> session.projections.conservative,
     expected_projection     |-> session.projections.expected,
     best_case_projection    |-> session.projections.best_case,
     confidence              |-> session.projections.confidence,
     adjusted_return         |-> session.projections.adjusted_return,
     created_at              |-> created_at]

\* the goal id put into the session before the save is attempted
press_save_goal_IdBeforeSave(session, table, goal_id, created_at, t, db_error) ==
    IF InsertRaises(table, goal_id, db_error)
    THEN [session_state |-> [session EXCEPT !.goalid = Some(goal_id)],
          goals |-> table, ok |-> FALSE]
    ELSE [session_state |-> [session EXCEPT !.goalid = Some(goal_id)],
          goals |-> db_save_goal(table, goal_id, page_goal_data(session, created_at), t),
          ok |-> TRUE]

\* the handler: goal_id = save_goal(goal_data), then
\* st.session_state["goalid"] = goal_id; an exception skips the assignment
\* and is shown as a warning
press_save_goal(session, table, goal_id, created_at, t, db_error) ==
    IF InsertRaises(table, goal_id, db_error)
    THEN [session_state |-> session, goals |-> table, ok |-> FALSE]
    ELSE [session_state |-> [session EXCEPT !.goalid = Some(goal_id)],
          goals |-> db_save_goal(table, goal_id, page_goal_data(session, created_at), t),
          ok |-> TRUE]

PressSaveGoal ==
    /\ session_state # <<>>
    /\ \E goal_id \in GoalIds, t \in ClockReadings, db_error \in BOOLEAN :
        LET out == press_save_goal(session_state, goals, goal_id, now, t, db_error)
        IN  /\ session_state' = out.session_state
            /\ goals' = out.goals
            /\ now' = t
            /\ last_call' = Call("save_goal", goal_id, session_state.registration_id,
                                 page_goal_data(session_state, now), db_error, out.ok,
                                 IF out.ok THEN goal_id ELSE NULL, goals)
    /\ UNCHANGED <<rec_vars, goal_vars, generated, saves, assessed>>

-----------------------------------------------------------------------------

(* Specifications *)

RecIdle ==
    /\ called = "none"
    /\ risk_category = "Low Risk"
    /\ investment_amount = 500
    /\ duration = "Less than 6 months"
    /\ df_step1 = <<>>
    /\ df_step2 = <<>>
    /\ df_step3 = <<>>
    /\ recommended = <<>>

GoalIdle == adjusted = <<>> /\ calls = <<>> /\ scored = <<>> /\ grown = <<>>

\* nothing generated, saved side by side or assessed yet; no page open
AppIdle ==
    /\ session_state = <<>>
    /\ generated = <<>>
    /\ saves = <<>>
    /\ assessed = <<>>

\* an empty goals table
StoreIdle ==
    /\ goals = <<>>
    /\ now = 0
    /\ last_call = Call("none", "", NULL, NULL, FALSE, TRUE, NULL, <<>>)

\* the recommendation engine over every catalog
RecInit == df \in Catalogs /\ RecIdle /\ GoalIdle /\ StoreIdle /\ AppIdle
RecNext == ShowRecommendations \/ RoboadvisorShowRecommendations
SpecRec == RecInit /\ [][RecNext]_vars

\* apply_mean_reversion on its own
MeanReversionInit == df = <<>> /\ RecIdle /\ GoalIdle /\ StoreIdle /\ AppIdle
MeanReversionNext == ApplyMeanReversion
SpecMeanReversion == MeanReversionInit /\ [][MeanReversionNext]_vars

\* calculate_goal_projections
GoalInit == df = <<>> /\ RecIdle /\ GoalIdle /\ StoreIdle /\ AppIdle
GoalNext == CalculateGoalProjections
SpecGoal == GoalInit /\ [][GoalNext]_vars

\* get_confidence_score on its own
ConfidenceInit == df = <<>> /\ RecIdle /\ GoalIdle /\ StoreIdle /\ AppIdle
ConfidenceNext == GetConfidenceScore
SpecConfidence == ConfidenceInit /\ [][ConfidenceNext]_vars

\* calculate_corpus_growth on its own
GrowthInit == df = <<>> /\ RecIdle /\ GoalIdle /\ StoreIdle /\ AppIdle
GrowthNext == CalculateCorpusGrowth
SpecGrowth == GrowthInit /\ [][GrowthNext]_vars

\* the goals table under save_goal and the two mark calls
StoreInit == df = <<>> /\ RecIdle /\ GoalIdle /\ StoreIdle /\ AppIdle
StoreNext ==
    \/ SaveGoal
    \/ RetrieveGoal
    \/ GetUserGoals
    \/ MarkGoalEmailSent
    \/ MarkGoalRevisited
SpecStore == StoreInit /\ [][StoreNext]_vars

\* the risk questionnaire
AssessmentInit == df = <<>> /\ RecIdle /\ GoalIdle /\ StoreIdle /\ AppIdle
AssessmentNext == SubmitRiskForm
SpecAssessment == AssessmentInit /\ [][AssessmentNext]_vars

\* generate_goal_id on its own
GoalIdInit == df = <<>> /\ RecIdle /\ GoalIdle /\ StoreIdle /\ AppIdle
GoalIdNext == GenerateGoalId
SpecGoalId == GoalIdInit /\ [][GoalIdNext]_vars

\* save_goal called by several sessions at once
ConcurrentInit ==
    /\ df = <<>> /\ RecIdle /\ GoalIdle /\ StoreIdle
    /\ saves = [p \in Savers |-> NotStarted]
    /\ session_state = <<>> /\ generated = <<>> /\ assessed = <<>>
ConcurrentNext == SaveGenerate \/ SaveInsert
SpecConcurrent == ConcurrentInit /\ [][ConcurrentNext]_vars

\* the projection page and its "Save Goal" button
PageInit ==
    /\ df = <<>> /\ RecIdle /\ GoalIdle /\ StoreIdle
    /\ session_state \in Sessions
    /\ generated = <<>> /\ saves = <<>> /\ assessed = <<>>
PageNext == PressSaveGoal
SpecPage == PageInit /\ [][PageNext]_vars

\* all of it
Init == RecInit
Next == RecNext \/ MeanReversionNext \/ GoalNext \/ ConfidenceNext \/ GrowthNext \/ StoreNext
        \/ PageNext \/ GoalIdNext \/ ConcurrentNext \/ AssessmentNext
Spec == Init /\ [][Next]_vars

-----------------------------------------------------------------------------
(* Properties of the fund recommendation engine *)

KnownRisk == {"Low Risk", "Moderate Risk", "Medium Risk", "High Risk"}
KnownDurations == {"Less than 6 months", "6 months to 1 year", "More than 1 year"}

\* the risk order Low < Moderate < Medium < High
RiskRank(rc) ==
    CASE rc = "Low Risk"      -> 1
      [] rc = "Moderate Risk" -> 2
      [] rc = "Medium Risk"   -> 3
      [] rc = "High Risk"     -> 4

Rows(frame) == {frame[i] : i \in DOMAIN frame}
Names(frame) == {frame[i].row.fund_name : i \in DOMAIN frame}

\* a beats b in a column where more is better, resp. where less is better;
\* a missing value beats nothing
Higher(a, b) == a # NaN /\ (b = NaN \/ a > b)
Lower(a, b)  == a # NaN /\ (b = NaN \/ a < b)

SameKeys(f, g) ==
    /\ f.rating = g.rating
    /\ f.return_5y = g.return_5y
    /\ f.return_3y = g.return_3y
    /\ f.exp_ratio = g.exp_ratio

\* f is strictly better than g: rating, then 5-year return, then 3-year
\* return, all descending, then expense ratio ascending
Outranks(f, g) ==
    \/ Higher(f.rating, g.rating)
    \/ /\ f.rating = g.rating
       /\ \/ Higher(f.return_5y, g.return_5y)
          \/ /\ f.return_5y = g.return_5y
             /\ \/ Higher(f.return_3y, g.return_3y)
                \/ /\ f.return_3y = g.return_3y
                   /\ Lower(f.exp_ratio, g.exp_ratio)

\* C1: for a known risk category every returned fund has the user's risk
\* category or a lower one; none has a higher one.
C1_RiskNeverHigher ==
    (called = "recommendations" /\ risk_category \in KnownRisk) =>
        \A i \in DOMAIN recommended :
            /\ recommended[i].row.risk_profile \in KnownRisk
            /\ RiskRank(recommended[i].row.risk_profile) <= RiskRank(risk_category)

\* a Medium Risk user is shown a Moderate Risk fund while the catalog holds
\* a High Risk fund
C1_Witness ==
    /\ called = "recommendations"
    /\ risk_category = "Medium Risk"
    /\ \E i \in DOMAIN recommended : recommended[i].row.risk_profile = "Moderate Risk"
    /\ \E i \in DOMAIN df :
        /\ df[i].row.risk_profile = "High Risk"
        /\ df[i].row.min_investment <= investment_amount

\* C2: for each known duration label every returned fund has an allowed
\* fund_type; under "Less than 6 months" its fund_category is Liquid, Ultra
\* Short Duration or Short Duration Debt; under the two longer labels a fund
\* of any category that passes the other filters is returned.
C2_DurationTypeRule ==
    called = "recommendations" =>
        /\ duration = "Less than 6 months" =>
            \A i \in DOMAIN recommended :
                /\ recommended[i].row.fund_type \in {"Debt", "Hybrid"}
                /\ recommended[i].row.fund_category \in
                        {"Liquid", "Ultra Short Duration", "Short Duration Debt"}
        /\ duration = "6 months to 1 year" =>
            /\ \A i \in DOMAIN recommended :
                    recommended[i].row.fund_type \in {"Debt", "Hybrid"}
            /\ \A i \in DOMAIN df_step2 :
                    (/\ df_step2[i].row.fund_type \in {"Debt", "Hybrid"}
                     /\ df_step2[i].row.duration \in {"6 months to 1 year", "< 6 months"})
                    => df_step2[i].row.fund_name \in Names(recommended)
        /\ duration = "More than 1 year" =>
            /\ \A i \in DOMAIN recommended :
                    recommended[i].row.fund_type \in {"Debt", "Hybrid", "Equity", "Index/ETF"}
            /\ \A i \in DOMAIN df_step2 :
                    (/\ df_step2[i].row.fund_type \in {"Debt", "Hybrid", "Equity", "Index/ETF"}
                     /\ df_step2[i].row.duration \in
                            {"> 1 year", "6 months to 1 year", "< 6 months"})
                    => df_step2[i].row.fund_name \in Names(recommended)

\* under "Less than 6 months" a Liquid fund is returned and a Hybrid fund of
\* another category, affordable and of the right risk and duration label, is not
C2_Witness ==
    /\ called = "recommendations"
    /\ duration = "Less than 6 months"
    /\ \E i \in DOMAIN recommended : recommended[i].row.fund_category = "Liquid"
    /\ \E i \in DOMAIN df_step2 :
        /\ df_step2[i].row.fund_type = "Hybrid"
        /\ df_step2[i].row.duration = "< 6 months"
        /\ df_step2[i].row.fund_category = "Conservative Hybrid"
        /\ df_step2[i].row.fund_name \notin Names(recommended)

\* C3: with a duration label that is none of the three known ones, every
\* fund that survived the risk and affordability filters is in the result.
C3_UnknownDurationReturnsSurvivors ==
    (called = "recommendations" /\ duration \notin KnownDurations) =>
        \A i \in DOMAIN df_step2 : df_step2[i].row.fund_name \in Names(recommended)

\* C4: the result is ordered by rating descending, 5-year return descending,
\* 3-year return descending, expense ratio ascending (no fund is outranked by
\* its successor), and funds equal on all four keys keep their catalog order.
C4_SortedAndStable ==
    called = "recommendations" =>
        \A i \in 1..(Len(recommended) - 1) :
            /\ ~Outranks(recommended[i + 1].row, recommended[i].row)
            /\ SameKeys(recommended[i].row, recommended[i + 1].row)
                    => recommended[i].index < recommended[i + 1].index

\* the sort moved a row forward, and two rows that tie on all four keys are
\* returned next to each other
C4_Witness ==
    /\ called = "recommendations"
    /\ \E i \in 1..(Len(recommended) - 1) :
            recommended[i].index > recommended[i + 1].index
    /\ \E i \in 1..(Len(recommended) - 1) :
            SameKeys(recommended[i].row, recommended[i + 1].row)

\* C5: the result holds at most one row per fund_name, and for every name
\* with a row surviving the filters the retained row is the surviving row of
\* that name that ranks first in the sort order.
C5_OneRowPerName ==
    called = "recommendations" =>
        /\ \A i, j \in DOMAIN recommended :
                recommended[i].row.fund_name = recommended[j].row.fund_name => i = j
        /\ \A k \in DOMAIN df_step3 :
                \E i \in DOMAIN recommended :
                    /\ recommended[i] \in Rows(df_step3)
                    /\ recommended[i].row.fund_name = df_step3[k].row.fund_name
                    /\ \A m \in DOMAIN df_step3 :
                        df_step3[m].row.fund_name = df_step3[k].row.fund_name =>
                            /\ ~Outranks(df_step3[m].row, recommended[i].row)
                            /\ SameKeys(df_step3[m].row, recommended[i].row)
                                    => recommended[i].index <= df_step3[m].index

\* two rows of one name survive the filters, the later one ranks higher and
\* is the one returned
C5_Witness ==
    /\ called = "recommendations"
    /\ \E m, n \in DOMAIN df_step3 :
        /\ m < n
        /\ df_step3[m].row.fund_name = df_step3[n].row.fund_name
        /\ Outranks(df_step3[n].row, df_step3[m].row)
        /\ df_step3[n] \in Rows(recommended)

\* C6: no returned fund has min_investment above the investment amount, and
\* a fund whose min_investment equals the amount passes the affordability
\* filter.
C6_Affordable ==
    called = "recommendations" =>
        /\ \A i \in DOMAIN recommended :
                recommended[i].row.min_investment <= investment_amount
        /\ \A i \in DOMAIN df_step1 :
                df_step1[i].row.min_investment = investment_amount
                    => df_step1[i] \in Rows(df_step2)

\* a fund costing exactly the amount is returned while a dearer fund of an
\* admitted risk profile is dropped
C6_Witness ==
    /\ called = "recommendations"
    /\ \E i \in DOMAIN recommended :
            recommended[i].row.min_investment = investment_amount
    /\ \E i \in DOMAIN df_step1 :
            df_step1[i].row.min_investment > investment_amount

IsHighEquityLong(f) ==
    f.risk_profile = "High Risk" /\ f.fund_type = "Equity" /\ f.duration = "> 1 year"
IsLowDebtShort(f) ==
    f.risk_profile = "Low Risk" /\ f.fund_type = "Debt" /\ f.duration = "< 6 months"

\* a High Risk user with "More than 1 year" over a catalog of exactly one
\* High Risk / Equity / "> 1 year" fund and one Low Risk / Debt /
\* "< 6 months" fund, both affordable
C7_Scenario ==
    /\ called = "recommendations"
    /\ risk_category = "High Risk"
    /\ duration = "More than 1 year"
    /\ Len(df) = 2
    /\ \E i, j \in DOMAIN df :
        /\ i # j
        /\ IsHighEquityLong(df[i].row)
        /\ IsLowDebtShort(df[j].row)
    /\ \A i \in DOMAIN df : df[i].row.min_investment <= investment_amount

\* C7 as stated: in that scenario the risk filter admits both funds and only
\* the Equity fund is returned.
C7_OnlyEquityReturned ==
    C7_Scenario =>
        /\ Len(df_step1) = 2
        /\ Len(recommended) = 1
        /\ IsHighEquityLong(recommended[1].row)

\* C7 (amended): in that scenario the risk filter admits both funds and both
\* are returned: Debt is an allowed type under "> 1 year", whose hierarchy
\* also admits the "< 6 months" label.
C7_BothReturned ==
    C7_Scenario =>
        /\ Rows(df_step1) = Rows(df)
        /\ Rows(recommended) = Rows(df)

C7_Witness ==
    /\ C7_Scenario
    /\ Len(recommended) = 2
    /\ IsHighEquityLong(recommended[1].row)
    /\ IsLowDebtShort(recommended[2].row)

-----------------------------------------------------------------------------
(* Properties of the goal projection engine *)

SameGoal(c, d) ==
    /\ c.args.corpus = d.args.corpus
    /\ c.args.sip = d.args.sip
    /\ c.args.horizon = d.args.horizon

\* C9: for each known risk category, the call with recent_1yr_return omitted
\* returns what the call with that category's RECENT_1YR_MARKET_RETURNS entry
\* returns, so the mean-reversion test is made on that entry.
C9_DefaultRecentReturn ==
    \A i, j \in DOMAIN calls :
        (/\ SameGoal(calls[i], calls[j])
         /\ calls[i].args.risk_category \in KnownRisk
         /\ calls[j].args.risk_category = calls[i].args.risk_category
         /\ calls[i].args.recent_1yr_return = None
         /\ calls[j].args.recent_1yr_return =
                Some(RECENT_1YR_MARKET_RETURNS[calls[i].args.risk_category]))
        => calls[i].result = calls[j].result

\* a High Risk goal projected without and then with the 18.2 of the table:
\* both times the adjustment is made
C9_Witness ==
    /\ Len(calls) = 2
    /\ SameGoal(calls[1], calls[2])
    /\ calls[1].args.risk_category = "High Risk"
    /\ calls[2].args.risk_category = "High Risk"
    /\ calls[1].args.recent_1yr_return = None
    /\ calls[2].args.recent_1yr_return = Some(182)
    /\ calls[1].args.corpus > 0
    /\ calls[1].result.mean_reversion_applied
    /\ calls[2].result.mean_reversion_applied

\* C10: for a risk category that is none of the four known ones the call
\* returns what it returns for "Medium Risk" with the same corpus, sip,
\* horizon and recent_1yr_return argument, omitted or not.
C10_UnknownLikeMedium ==
    \A i, j \in DOMAIN calls :
        (/\ SameGoal(calls[i], calls[j])
         /\ calls[i].args.risk_category \notin KnownRisk
         /\ calls[j].args.risk_category = "Medium Risk"
         /\ calls[i].args.recent_1yr_return = calls[j].args.recent_1yr_return)
        => calls[i].result = calls[j].result

\* C11: two calls that differ only in recent_1yr_return return the same
\* conservative and the same best_case value.
C11_OuterLegsIgnoreRecent ==
    \A i, j \in DOMAIN calls :
        (/\ SameGoal(calls[i], calls[j])
         /\ calls[i].args.risk_category = calls[j].args.risk_category)
        => /\ calls[i].result.conservative = calls[j].result.conservative
           /\ calls[i].result.best_case = calls[j].result.best_case

\* the same goal projected under a calm and under a hot recent return: the
\* expected value and the adjusted return differ, the outer legs do not
C11_Witness ==
    /\ Len(calls) = 2
    /\ SameGoal(calls[1], calls[2])
    /\ calls[1].args.risk_category = calls[2].args.risk_category
    /\ calls[1].args.recent_1yr_return # calls[2].args.recent_1yr_return
    /\ calls[1].result.adjusted_return # calls[2].result.adjusted_return
    /\ calls[1].result.expected # calls[2].result.expected
    /\ calls[1].result.conservative = calls[2].result.conservative
    /\ calls[1].result.conservative > 0

\* the inputs the goal form accepts: a horizon of a year or more, a corpus
\* and a SIP that are not negative
FormInput(a) == a.horizon >= 1 /\ a.corpus >= 0 /\ a.sip >= 0
Invests(a) == a.corpus > 0 \/ a.sip > 0

\* C12: whenever something is invested, best_case is strictly above expected,
\* the rate of the expected leg being below the category's best_case rate.
C12_BestCaseAboveExpected ==
    \A i \in DOMAIN calls :
        (FormInput(calls[i].args) /\ Invests(calls[i].args))
        => /\ calls[i].result.best_case > calls[i].result.expected
           /\ calls[i].result.adjusted_return <
                  get_category_return_assumptions(calls[i].args.risk_category).best_case

\* a SIP-only goal and a hot recent return: the expected leg runs at base - 1
C12_Witness ==
    \E i \in DOMAIN calls :
        /\ calls[i].args.corpus = 0
        /\ calls[i].args.sip > 0
        /\ calls[i].args.horizon = 1
        /\ calls[i].result.mean_reversion_applied
        /\ calls[i].result.adjusted_return = calls[i].result.base_return - 10
        /\ calls[i].result.best_case > calls[i].result.expected

\* C13: expected is below conservative only if mean reversion was applied;
\* when it was not, conservative <= expected <= best_case.
C13_OrderUnlessMeanReversion ==
    \A i \in DOMAIN calls :
        FormInput(calls[i].args)
        => /\ (calls[i].result.expected < calls[i].result.conservative)
                  => calls[i].result.mean_reversion_applied
           /\ ~ calls[i].result.mean_reversion_applied
                  => /\ calls[i].result.conservative <= calls[i].result.expected
                     /\ calls[i].result.expected <= calls[i].result.best_case

\* one goal projected twice: mean reversion puts expected below conservative
\* in one call, and in the other the three values are in strict order
C13_Witness ==
    /\ Len(calls) = 2
    /\ calls[1].result.mean_reversion_applied
    /\ calls[1].result.expected < calls[1].result.conservative
    /\ ~ calls[2].result.mean_reversion_applied
    /\ calls[2].result.conservative < calls[2].result.expected
    /\ calls[2].result.expected < calls[2].result.best_case

\* the call the projection page makes for a Medium Risk investor
PageCallMedium(c) ==
    /\ c.args.risk_category = "Medium Risk"
    /\ c.args.recent_1yr_return = None
    /\ FormInput(c.args)
    /\ Invests(c.args)

RecentUsed(a) ==
    IF a.recent_1yr_return = None
    THEN Get(RECENT_1YR_MARKET_RETURNS, a.risk_category,
             get_category_return_assumptions(a.risk_category).expected)
    ELSE a.recent_1yr_return[1]

\* C15: mean_reversion_applied is true iff adjusted_return differs from
\* base_return, iff the recent return used is strictly above base_return + 5.0,
\* and then adjusted_return = base_return - 1.0.
C15_FlagIffAdjusted ==
    \A i \in DOMAIN calls :
        LET r == calls[i].result
            hot == RecentUsed(calls[i].args) > r.base_return + 50
        IN  /\ r.mean_reversion_applied <=> (r.adjusted_return # r.base_return)
            /\ (r.adjusted_return # r.base_return) <=> hot
            /\ hot => r.adjusted_return = r.base_return - 10
            /\ r.base_return = get_category_return_assumptions(calls[i].args.risk_category).expected

\* a recent return supplied at the threshold, then one just above it
C15_Witness ==
    /\ Len(calls) = 2
    /\ calls[1].args.risk_category = calls[2].args.risk_category
    /\ calls[1].args.recent_1yr_return = Some(calls[1].result.base_return + 50)
    /\ calls[2].args.recent_1yr_return = Some(calls[2].result.base_return + 51)
    /\ ~ calls[1].result.mean_reversion_applied
    /\ calls[2].result.mean_reversion_applied
    /\ calls[2].result.adjusted_return = calls[2].result.base_return - 10

C17_LinearWithoutCompounding ==
    \A i \in DOMAIN grown :
        LET g == grown[i]
        IN  /\ (g.annual_return_pct = 0 \/ g.years <= 0)
                => g.result = (g.initial_corpus + (g.monthly_sip * 12 * g.years)) * Scale
            /\ (g.years < 0 /\ g.monthly_sip > 0)
                => g.result < g.initial_corpus * Scale

\* a year back at 8.0 percent: twelve SIPs are taken off the corpus
C17_Witness ==
    \E i \in DOMAIN grown :
        /\ grown[i].years = 0 - 1
        /\ grown[i].annual_return_pct = 80
        /\ grown[i].initial_corpus = 50
        /\ grown[i].monthly_sip = 2
        /\ grown[i].result = 26 * Scale

\* balance * annual_return_pct / 12 / 100, rounded down
Interest(balance, annual_return_pct) ==
    ((balance \div 12000) * annual_return_pct)
        + (((balance % 12000) * annual_return_pct) \div 12000)

\* the account kept month by month: the balance earns a month's return, then
\* the SIP is paid in at the end of the month
RECURSIVE Ledger(_, _, _, _)
Ledger(balance, monthly_sip, annual_return_pct, months) ==
    IF months = 0 THEN balance
    ELSE Ledger(balance + Interest(balance, annual_return_pct) + (monthly_sip * Scale),
                monthly_sip, annual_return_pct, months - 1)

\* the rounding allowed between the closed form and the ledger
Tolerance == Scale \div 1000

Near(x, y) == x - y <= Tolerance /\ y - x <= Tolerance

\* C18: for years >= 1 and a return other than 0, calculate_corpus_growth
\* returns initial_corpus * (1 + r)^n + monthly_sip * ((1 + r)^n - 1) / r with
\* n = years * 12: the lump sum compounded monthly plus an ordinary annuity.
C18_MonthlyCompounding ==
    \A i \in DOMAIN grown :
        LET g == grown[i]
            n == g.years * 12
        IN  (g.years >= 1 /\ g.annual_return_pct # 0)
            => /\ g.result = (g.initial_corpus * GrowthFactor(g.annual_return_pct, n))
                             + (g.monthly_sip * AnnuityFactor(g.annual_return_pct, n))
               /\ Near(g.result,
                       Ledger(g.initial_corpus * Scale, g.monthly_sip, g.annual_return_pct, n))

\* a corpus and a SIP grown over two years at 8.0 percent
C18_Witness ==
    \E i \in DOMAIN grown :
        /\ grown[i].years = 2
        /\ grown[i].annual_return_pct = 80
        /\ grown[i].initial_corpus = 50
        /\ grown[i].monthly_sip = 2
        /\ grown[i].result > (50 + (2 * 24)) * Scale

\* C19: a record's status changes only from saved to email_sent or from saved
\* to revisited: once email_sent or revisited, it keeps that status.
C19_StatusOneWay ==
    [][\A i \in DOMAIN goals :
          goals'[i].status # goals[i].status
            => /\ goals[i].status = "saved"
               /\ goals'[i].status \in {"email_sent", "revisited"}]_vars

\* the columns neither mark call writes
FrameColumns ==
    {"goal_id", "registration_id", "corpus", "sip", "horizon", "risk_category",
     "conservative_projection", "expected_projection", "best_case_projection",
     "confidence", "adjusted_return", "created_at"}

\* C20: mark_goal_email_sent on a saved record sets status to email_sent and
\* email_sent_at and updated_at to the current time, leaves revisited_at null
\* and the other columns as they were; mark_goal_revisited does the same with
\* revisited_at and leaves email_sent_at as it was.
C20_MarkFrame ==
    \A i \in DOMAIN last_call.before :
        LET old == last_call.before[i]
            new == goals[i]
        IN  (old.goal_id = last_call.goal_id /\ old.status = "saved" /\ last_call.ok)
            => /\ last_call.op = "mark_goal_email_sent"
                    => /\ new.status = "email_sent"
                       /\ new.email_sent_at = <<now>>
                       /\ new.updated_at = now
                       /\ new.revisited_at = NULL
                       /\ \A c \in FrameColumns : new[c] = old[c]
               /\ last_call.op = "mark_goal_revisited"
                    => /\ new.status = "revisited"
                       /\ new.revisited_at = <<now>>
                       /\ new.updated_at = now
                       /\ new.email_sent_at = old.email_sent_at
                       /\ \A c \in FrameColumns : new[c] = old[c]

\* two goals saved, then the second marked a second later
C20_Witness ==
    /\ last_call.op = "mark_goal_email_sent"
    /\ Len(goals) = 2
    /\ last_call.before[2].goal_id = last_call.goal_id
    /\ last_call.before[2].status = "saved"
    /\ last_call.before[2].updated_at < now
    /\ goals[2].status = "email_sent"
    /\ goals[2].email_sent_at = <<now>>
    /\ goals[1] = last_call.before[1]

\* the columns save_goal takes from the caller's goal_data
DataColumns == FrameColumns \ {"goal_id"}

\* C21: after a successful save_goal the table has one more row, stored under
\* the goal id returned: status saved, email_sent_at and revisited_at null,
\* updated_at set, and every other column as the caller passed it.
C21_FreshRecord ==
    (last_call.op = "save_goal" /\ last_call.ok)
    => /\ Len(goals) = Len(last_call.before) + 1
       /\ SubSeq(goals, 1, Len(last_call.before)) = last_call.before
       /\ LET row == goals[Len(goals)]
          IN  /\ row.goal_id = last_call.result
              /\ row.goal_id = last_call.goal_id
              /\ row.status = "saved"
              /\ row.email_sent_at = NULL
              /\ row.revisited_at = NULL
              /\ row.updated_at = now
              /\ \A c \in DataColumns : row[c] = last_call.goal_data[c]

\* a registered user's goal saved as the second row, a second after the page
\* stamped created_at
C21_Witness ==
    /\ last_call.op = "save_goal"
    /\ last_call.ok
    /\ Len(goals) = 2
    /\ goals[2].registration_id = <<1>>
    /\ goals[2].created_at < goals[2].updated_at
    /\ goals[2].expected_projection > 0
    /\ goals[1].status # "saved"

\* C22: a mark call on a record that already has the status it sets changes
\* only the timestamp of that status and updated_at, and never to an earlier
\* time; status and every other column stay as after the first call.
C22_MarkIdempotent ==
    \A i \in DOMAIN last_call.before :
        LET old == last_call.before[i]
            new == goals[i]
        IN  (old.goal_id = last_call.goal_id /\ last_call.ok)
            => /\ (last_call.op = "mark_goal_email_sent" /\ old.status = "email_sent")
                    => /\ new.status = "email_sent"
                       /\ new.revisited_at = old.revisited_at
                       /\ \A c \in FrameColumns : new[c] = old[c]
                       /\ new.email_sent_at[1] >= old.email_sent_at[1]
                       /\ new.updated_at >= old.updated_at
               /\ (last_call.op = "mark_goal_revisited" /\ old.status = "revisited")
                    => /\ new.status = "revisited"
                       /\ new.email_sent_at = old.email_sent_at
                       /\ \A c \in FrameColumns : new[c] = old[c]
                       /\ new.revisited_at[1] >= old.revisited_at[1]
                       /\ new.updated_at >= old.updated_at

\* the mail marked as sent a second time, a second later
C22_Witness ==
    /\ last_call.op = "mark_goal_email_sent"
    /\ last_call.ok
    /\ \E i \in DOMAIN last_call.before :
        /\ last_call.before[i].goal_id = last_call.goal_id
        /\ last_call.before[i].status = "email_sent"
        /\ goals[i].status = "email_sent"
        /\ goals[i].email_sent_at[1] > last_call.before[i].email_sent_at[1]

\* C23: a save whose insert fails raises to the page, adds no row, and leaves
\* the session, its projections and its saved goal id among it, as it was.
C23_FailedSaveChangesNothing ==
    [][(/\ last_call'.op = "save_goal"
        /\ InsertRaises(goals, last_call'.goal_id, last_call'.db_error))
       => /\ ~ last_call'.ok
          /\ last_call'.result = NULL
          /\ goals' = goals
          /\ session_state' = session_state]_vars

\* a goal saved, then a second save stopped by the database: the session
\* still names the first goal
C23_Witness ==
    /\ session_state # <<>>
    /\ last_call.op = "save_goal"
    /\ last_call.db_error
    /\ ~ last_call.ok
    /\ Len(goals) = 1
    /\ goals = last_call.before
    /\ session_state.goalid = Some(goals[1].goal_id)
    /\ session_state.goalid # Some(last_call.goal_id)
    /\ session_state.projections.expected = goals[1].expected_projection

\* C24: any two calls of generate_goal_id return different ids.
C24_GoalIdsUnique ==
    Len(generated) = 2 => generated[1].goal_id # generated[2].goal_id

\* C25: however concurrent save_goal calls interleave, each call inserts at
\* most once and no two rows share a goal_id; a call whose id is in the table
\* already raises and leaves the table as it is.
C25_OneInsertUniqueIds ==
    /\ [](/\ \A i, j \in DOMAIN goals : i # j => goals[i].goal_id # goals[j].goal_id
          /\ \A p \in DOMAIN saves : saves[p].inserts <= 1
          /\ Len(goals) = Cardinality({p \in DOMAIN saves : saves[p].inserts = 1}))
    /\ [][\A p \in DOMAIN saves :
            (/\ saves[p].pc = "insert"
             /\ saves'[p].pc = "done"
             /\ HasGoal(goals, saves[p].goal_id))
            => /\ saves'[p].raised
               /\ saves'[p].inserts = 0
               /\ goals' = goals]_vars

\* two sessions generated the same id: the first insert went in, the second
\* raised without a database failure
C25_Witness ==
    /\ Len(saves) >= 2
    /\ saves[1].pc = "done"
    /\ saves[2].pc = "done"
    /\ saves[1].goal_id = saves[2].goal_id
    /\ saves[1].inserts = 1
    /\ saves[2].raised
    /\ ~ saves[2].db_error
    /\ saves[1].goal_data # saves[2].goal_data
    /\ Len(goals) = 1
    /\ goals[1].registration_id = saves[1].goal_data.registration_id

\* C26: no call removes a row, and no call changes the goal_id, owner, inputs,
\* projections, confidence, adjusted return or created_at of a row.
C26_RowsKept ==
    /\ Len(goals) >= Len(last_call.before)
    /\ \A i \in DOMAIN last_call.before :
           \A c \in FrameColumns : goals[i][c] = last_call.before[i][c]

\* the first of two goals revisited after its mail had gone out
C26_Witness ==
    /\ last_call.op = "mark_goal_revisited"
    /\ last_call.ok
    /\ Len(goals) = 2
    /\ last_call.goal_id = goals[1].goal_id
    /\ last_call.before[1].status = "email_sent"
    /\ goals[1].status = "revisited"
    /\ goals[1].created_at < goals[1].updated_at
    /\ goals[2] = last_call.before[2]

\* a nullable timestamp that is set
IsSet(timestamp) == timestamp # NULL

\* C27: a saved record has neither timestamp, an email_sent record has
\* email_sent_at, a revisited record has revisited_at, and no call resets a
\* timestamp to null.
C27_StatusAndTimestamps ==
    /\ \A i \in DOMAIN goals :
        /\ goals[i].status \in {"saved", "email_sent", "revisited"}
        /\ goals[i].status = "saved"
              => ~ IsSet(goals[i].email_sent_at) /\ ~ IsSet(goals[i].revisited_at)
        /\ goals[i].status = "email_sent" => IsSet(goals[i].email_sent_at)
        /\ goals[i].status = "revisited" => IsSet(goals[i].revisited_at)
    /\ \A i \in DOMAIN last_call.before :
        /\ IsSet(last_call.before[i].email_sent_at) => IsSet(goals[i].email_sent_at)
        /\ IsSet(last_call.before[i].revisited_at) => IsSet(goals[i].revisited_at)

\* a record mailed and then revisited keeps both timestamps
C27_Witness ==
    \E i \in DOMAIN last_call.before :
        /\ last_call.op = "mark_goal_revisited"
        /\ last_call.before[i].status = "email_sent"
        /\ goals[i].status = "revisited"
        /\ IsSet(goals[i].email_sent_at)
        /\ IsSet(goals[i].revisited_at)
        /\ goals[i].email_sent_at[1] < goals[i].revisited_at[1]

\* C30: a mark call for a goal id that is not in the table changes no row,
\* adds none, and returns True.
C30_MarkUnknownGoal ==
    (/\ last_call.op \in {"mark_goal_email_sent", "mark_goal_revisited"}
     /\ ~ HasGoal(last_call.before, last_call.goal_id)
     /\ ~ last_call.db_error)
    => /\ goals = last_call.before
       /\ last_call.ok

\* the mail marked as sent for an id the table does not hold
C30_Witness ==
    /\ last_call.op = "mark_goal_email_sent"
    /\ Len(last_call.before) = 1
    /\ last_call.before[1].goal_id # last_call.goal_id
    /\ ~ last_call.db_error
    /\ last_call.ok
    /\ goals = last_call.before

C28_ScoreAlwaysCategorised ==
    \A i \in DOMAIN assessed :
        /\ assessed[i].risk_score \in 13..45
        /\ assessed[i].risk_category \in {Some(rc) : rc \in KnownRisk}

=============================================================================
